---- MODULE Spec2Model ----
(***************************************************************************)
(* RFID access controller (Source/Access-Controller.py, class RFIDApp).    *)
(*                                                                         *)
(* The Tag Store (allowed_tags, backed by the JSON file allowed_tags.json) *)
(* and the Access Check (check_tag, reached from the keyboard event        *)
(* filter) are modelled as a state machine.  A Python str is a sequence of *)
(* one-character strings; a JSON value held in the store is a record       *)
(* [kind, text] so that the string "12" and the number 12 stay different   *)
(* values, as they are for Python's == and "in".                           *)
(***************************************************************************)
EXTENDS Integers, Sequences, FiniteSets, TLC

VARIABLES
    phase,            \* "boot" before RFIDApp.__init__, "running", "closed",
                      \* "crashed" when __init__ raised
    file,             \* content of allowed_tags.json
    allowed_tags,     \* self.allowed_tags: sequence of JSON values
    scanning_enabled, \* self.scanning_enabled
    esp,              \* self.esp: "None", "open" or "closed" (serial.Serial)
    buffer,           \* self.buffer: digits typed since the last submit
    serial_out,       \* number of b"open\n" commands written to the port
    last,             \* the handler that ran last: its argument, its result,
                      \* the text it put on scan_label and the activity it logged
    write_faults,     \* file writes that have failed so far
    ports_open,       \* serial connections this process holds open
    typed,            \* digit keys pressed since scanning started or since
                      \* the last Enter, in the order pressed
    denied_checks     \* checks so far that did not grant (counted up to a cap)

vars == <<phase, file, allowed_tags, scanning_enabled, esp, buffer,
          serial_out, last, write_faults, ports_open, typed,
          denied_checks>>

(***************************************************************************)
(* Bounds of the model.                                                    *)
(***************************************************************************)
MaxTags == 6      \* longest store the settings panel may build
MaxBuf == 1       \* most digits typed before Enter
MaxWrites == 1    \* most "open" commands counted
MaxFaults == 1    \* most file writes that fail in one run
MaxLine == 2      \* most digits typed before Enter in a scanning session
MaxDenied == 2    \* most refused checks counted in a scanning session

(***************************************************************************)
(* Strings and JSON values.                                                *)
(***************************************************************************)
EmptyStr == <<>>

JStr(s) == [kind |-> "str", text |-> s]

JNum(s) == [kind |-> "num", text |-> s]

\* default_tags (the same literal at lines 38, 43 and 49)
DefaultTags ==
    << JStr(<<"0","0","0","1","2","3","4","5","6","7">>),
       JStr(<<"0","0","0","9","8","7","6","5","4","3">>),
       JStr(<<"0","0","0","5","5","5","5","5","5","5">>),
       JStr(<<"1","2","3","4","5">>),
       JStr(<<"6","7","8","9","0">>) >>

\* Python's  x in list : equality with some element
InList(v, tags) == \E i \in 1..Len(tags) : tags[i] = v

\* index of the first element equal to v (v is in tags)
FirstIndex(v, tags) ==
    CHOOSE i \in 1..Len(tags) :
        /\ tags[i] = v
        /\ \A j \in 1..(i-1) : tags[j] # v

\* Python's  list.remove(v) : drops the first element equal to v
ListRemove(tags, v) ==
    LET i == FirstIndex(v, tags)
    IN  SubSeq(tags, 1, i-1) \o SubSeq(tags, i+1, Len(tags))

\* Python's  list.append(v)
ListAppend(tags, v) == Append(tags, v)

IsSpace(c) == c = " "

RECURSIVE LStrip(_)
LStrip(s) ==
    IF s # <<>> /\ IsSpace(Head(s)) THEN LStrip(Tail(s)) ELSE s

RECURSIVE RStrip(_)
RStrip(s) ==
    IF s # <<>> /\ IsSpace(s[Len(s)])
    THEN RStrip(SubSeq(s, 1, Len(s)-1))
    ELSE s

\* Python's  str.strip()
Strip(s) == RStrip(LStrip(s))

(***************************************************************************)
(* The persisted file.                                                     *)
(***************************************************************************)
FileMissing == [kind |-> "missing", tags |-> <<>>]

\* not JSON at all: garbage, an empty file, or a write cut short
FileUnparseable == [kind |-> "unparseable", tags |-> <<>>]

\* valid JSON that is not an array (an object, a number, a string, ...)
FileNonArray == [kind |-> "nonarray", tags |-> <<>>]

\* bytes that the text-mode read cannot decode: f.read() inside json.load
\* raises UnicodeDecodeError, a ValueError that is neither JSONDecodeError
\* nor IOError
FileUndecodable == [kind |-> "undecodable", tags |-> <<>>]

FileArray(tags) == [kind |-> "array", tags |-> tags]

\* outcomes of  open(TAGS_FILE, 'w') ; json.dump(tags, f, indent=2)
WriteOutcomes == {"ok", "open_failed", "cut_short"}

WriteFailed(w) == w # "ok"

\* save_tags_to_json: the file after the call.  open(..., 'w') truncates,
\* so a failure after the open leaves an incomplete document; a failure of
\* the open itself leaves the file as it was.  IOError is caught and logged.
SaveTagsToJson(f, tags, w) ==
    CASE w = "ok" -> FileArray(tags)
      [] w = "open_failed" -> f
      [] w = "cut_short" -> FileUnparseable

\* what load_tags_from_json leaves: the list returned, the file, whether it
\* called save_tags_to_json, the branch taken ("created": no file, line 41;
\* "loaded": line 35; "replaced": not a list, line 36; "error": the except
\* clause, line 46) and whether an exception left the function
Loaded(tags, f, wrote, how) ==
    [tags |-> tags, file |-> f, wrote |-> wrote, how |-> how, raised |-> FALSE]

\* load_tags_from_json taking any parsed value for the list
LoadTagsFromJson_NoListTest(f, readOk, w) ==
    IF f.kind = "missing"
    THEN Loaded(DefaultTags, SaveTagsToJson(f, DefaultTags, w), TRUE, "created")
    ELSE IF ~readOk \/ f.kind = "unparseable"
    THEN Loaded(DefaultTags, SaveTagsToJson(f, DefaultTags, w), TRUE, "error")
    ELSE IF f.kind = "undecodable"
    THEN [tags |-> <<>>, file |-> f, wrote |-> FALSE, how |-> "raised",
          raised |-> TRUE]
    ELSE Loaded(f.tags, f, FALSE, "loaded")

\* load_tags_from_json testing for the wrong type, so that a list is replaced
LoadTagsFromJson_WrongTypeTest(f, readOk, w) ==
    IF f.kind = "missing"
    THEN Loaded(DefaultTags, SaveTagsToJson(f, DefaultTags, w), TRUE, "created")
    ELSE IF ~readOk \/ f.kind = "unparseable"
    THEN Loaded(DefaultTags, SaveTagsToJson(f, DefaultTags, w), TRUE, "error")
    ELSE IF f.kind = "undecodable"
    THEN [tags |-> <<>>, file |-> f, wrote |-> FALSE, how |-> "raised",
          raised |-> TRUE]
    ELSE Loaded(DefaultTags, SaveTagsToJson(f, DefaultTags, w), TRUE, "replaced")

\* load_tags_from_json returning the defaults for a missing file without
\* writing them
LoadTagsFromJson_NoCreate(f, readOk, w) ==
    IF f.kind = "missing"
    THEN Loaded(DefaultTags, f, FALSE, "created")
    ELSE IF ~readOk \/ f.kind = "unparseable"
    THEN Loaded(DefaultTags, SaveTagsToJson(f, DefaultTags, w), TRUE, "error")
    ELSE IF f.kind = "undecodable"
    THEN [tags |-> <<>>, file |-> f, wrote |-> FALSE, how |-> "raised",
          raised |-> TRUE]
    ELSE IF f.kind = "array"
    THEN Loaded(f.tags, f, FALSE, "loaded")
    ELSE Loaded(DefaultTags, SaveTagsToJson(f, DefaultTags, w), TRUE, "replaced")

\* load_tags_from_json: the list returned and the file afterwards.
\* readOk = FALSE is an IOError raised while opening or reading the file.
LoadTagsFromJson(f, readOk, w) ==
    IF f.kind = "missing"
    THEN Loaded(DefaultTags, SaveTagsToJson(f, DefaultTags, w), TRUE, "created")
    ELSE IF ~readOk \/ f.kind = "unparseable"
    THEN Loaded(DefaultTags, SaveTagsToJson(f, DefaultTags, w), TRUE, "error")
    ELSE IF f.kind = "undecodable"
    THEN [tags |-> <<>>, file |-> f, wrote |-> FALSE, how |-> "raised",
          raised |-> TRUE]
    ELSE IF f.kind = "array"
    THEN Loaded(f.tags, f, FALSE, "loaded")
    ELSE Loaded(DefaultTags, SaveTagsToJson(f, DefaultTags, w), TRUE, "replaced")

\* add_tag_to_json without its membership test: appends whatever it is given
AddTagToJson_NoMembershipTest(tags, f, tag, w) ==
    LET new == ListAppend(tags, JStr(tag))
    IN  [tags |-> new, file |-> SaveTagsToJson(f, new, w),
         ret |-> TRUE, wrote |-> TRUE]

\* add_tag_to_json undoing the append when the file write fails
AddTagToJson_RollbackOnFailure(tags, f, tag, w) ==
    IF ~InList(JStr(tag), tags)
    THEN LET new == ListAppend(tags, JStr(tag))
         IN  IF WriteFailed(w)
             THEN [tags |-> tags, file |-> SaveTagsToJson(f, new, w),
                   ret |-> FALSE, wrote |-> TRUE]
             ELSE [tags |-> new, file |-> SaveTagsToJson(f, new, w),
                   ret |-> TRUE, wrote |-> TRUE]
    ELSE [tags |-> tags, file |-> f, ret |-> FALSE, wrote |-> FALSE]

\* add_tag_to_json inserting at the front instead of appending
AddTagToJson_Prepend(tags, f, tag, w) ==
    IF ~InList(JStr(tag), tags)
    THEN LET new == <<JStr(tag)>> \o tags
         IN  [tags |-> new, file |-> SaveTagsToJson(f, new, w),
              ret |-> TRUE, wrote |-> TRUE]
    ELSE [tags |-> tags, file |-> f, ret |-> FALSE, wrote |-> FALSE]

\* add_tag_to_json: the list, the file and the value returned
AddTagToJson(tags, f, tag, w) ==
    IF ~InList(JStr(tag), tags)
    THEN LET new == ListAppend(tags, JStr(tag))
         IN  [tags |-> new, file |-> SaveTagsToJson(f, new, w),
              ret |-> TRUE, wrote |-> TRUE]
    ELSE [tags |-> tags, file |-> f, ret |-> FALSE, wrote |-> FALSE]

\* remove_tag_from_json reporting success whether or not the tag was there
RemoveTagFromJson_AlwaysTrue(tags, f, tag, w) ==
    IF InList(JStr(tag), tags)
    THEN LET new == ListRemove(tags, JStr(tag))
         IN  [tags |-> new, file |-> SaveTagsToJson(f, new, w),
              ret |-> TRUE, wrote |-> TRUE]
    ELSE [tags |-> tags, file |-> f, ret |-> TRUE, wrote |-> FALSE]

\* remove_tag_from_json saving the list before it removes the tag
RemoveTagFromJson_SaveFirst(tags, f, tag, w) ==
    IF InList(JStr(tag), tags)
    THEN [tags |-> ListRemove(tags, JStr(tag)),
          file |-> SaveTagsToJson(f, tags, w),
          ret |-> TRUE, wrote |-> TRUE]
    ELSE [tags |-> tags, file |-> f, ret |-> FALSE, wrote |-> FALSE]

\* remove_tag_from_json: the list, the file and the value returned
RemoveTagFromJson(tags, f, tag, w) ==
    IF InList(JStr(tag), tags)
    THEN LET new == ListRemove(tags, JStr(tag))
         IN  [tags |-> new, file |-> SaveTagsToJson(f, new, w),
              ret |-> TRUE, wrote |-> TRUE]
    ELSE [tags |-> tags, file |-> f, ret |-> FALSE, wrote |-> FALSE]

(***************************************************************************)
(* The access check.                                                       *)
(***************************************************************************)
\* show_tag_result(text, success): the status put on scan_label.  The text
\* argument only supplies the tag id shown under the label.
ShowTagResult(text, success) ==
    IF success THEN "ACCESS GRANTED" ELSE "ACCESS DENIED"

\* check_tag comparing the scanned tag with the first entry only
CheckTag_FirstEntryOnly(tags, port, tag) ==
    IF tag = EmptyStr
    THEN [label |-> ShowTagResult("EMPTY TAG", FALSE), note |-> "Empty tag",
          success |-> FALSE, writes |-> 0]
    ELSE IF tags # <<>> /\ tags[1] = JStr(tag)
    THEN [label |-> ShowTagResult("ACCESS GRANTED", TRUE),
          note |-> "Access granted", success |-> TRUE,
          writes |-> IF port # "None" THEN 1 ELSE 0]
    ELSE [label |-> ShowTagResult("ACCESS DENIED", FALSE),
          note |-> "Access denied", success |-> FALSE, writes |-> 0]

\* check_tag sending "open" before it looks the tag up
CheckTag_WriteBeforeLookup(tags, port, tag) ==
    IF tag = EmptyStr
    THEN [label |-> ShowTagResult("EMPTY TAG", FALSE), note |-> "Empty tag",
          success |-> FALSE, writes |-> 0]
    ELSE IF InList(JStr(tag), tags)
    THEN [label |-> ShowTagResult("ACCESS GRANTED", TRUE),
          note |-> "Access granted", success |-> TRUE,
          writes |-> IF port # "None" THEN 1 ELSE 0]
    ELSE [label |-> ShowTagResult("ACCESS DENIED", FALSE),
          note |-> "Access denied", success |-> FALSE,
          writes |-> IF port # "None" THEN 1 ELSE 0]

\* check_tag refusing every tag once a check has been refused
CheckTag_LockoutAfterDenial(tags, port, tag) ==
    IF tag = EmptyStr
    THEN [label |-> ShowTagResult("EMPTY TAG", FALSE), note |-> "Empty tag",
          success |-> FALSE, writes |-> 0]
    ELSE IF InList(JStr(tag), tags) /\ denied_checks = 0
    THEN [label |-> ShowTagResult("ACCESS GRANTED", TRUE),
          note |-> "Access granted", success |-> TRUE,
          writes |-> IF port # "None" THEN 1 ELSE 0]
    ELSE [label |-> ShowTagResult("ACCESS DENIED", FALSE),
          note |-> "Access denied", success |-> FALSE, writes |-> 0]

\* check_tag: the label shown, the activity logged, the success flag and the
\* number of "open" commands written to the serial port.
CheckTag(tags, port, tag) ==
    IF tag = EmptyStr
    THEN [label |-> ShowTagResult("EMPTY TAG", FALSE),
          note |-> "Empty tag",
          success |-> FALSE, writes |-> 0]
    ELSE IF InList(JStr(tag), tags)
    THEN [label |-> ShowTagResult("ACCESS GRANTED", TRUE),
          note |-> "Access granted",
          success |-> TRUE,
          writes |-> IF port # "None" THEN 1 ELSE 0]
    ELSE [label |-> ShowTagResult("ACCESS DENIED", FALSE),
          note |-> "Access denied",
          success |-> FALSE, writes |-> 0]

(***************************************************************************)
(* Inputs.                                                                 *)
(***************************************************************************)
\* keys 0..9 that the reader types in this model
DigitKeys == {"1", "2"}

Keys == DigitKeys \cup {"Return", "Other"}

\* texts typed into new_tag_input
NewTagInputs ==
    { <<>>, <<" ">>, <<"1">>, <<" ","1"," ">>, <<"1","a">> }

\* contents of allowed_tags.json found at start-up
InitialFiles ==
    { FileMissing, FileUnparseable, FileNonArray, FileUndecodable,
      FileArray(<<>>),
      FileArray(<< JStr(<<"1">>), JStr(<<"2">>) >>),
      FileArray(<< JStr(<<"1">>), JStr(<<"2">>), JStr(<<"1">>) >>),
      FileArray(<< JStr(EmptyStr), JStr(<<"1">>) >>),
      FileArray(<< JNum(<<"1">>), JStr(<<"2">>) >>),
      FileArray(<< JStr(<<"1","a">>), JStr(<<"2">>) >>) }

\* what a handler leaves behind: op(tag) returned ret, set scan_label to
\* label ("" when it did not touch it) and logged note ("" when nothing)
Done(op, tag, ret, label, note) ==
    [op |-> op, tag |-> tag, ret |-> ret, label |-> label, note |-> note]

NoOp == Done("none", EmptyStr, "none", "", "")

BoolStr(b) == IF b THEN "true" ELSE "false"

Faults(w, wrote) == IF wrote /\ WriteFailed(w) THEN 1 ELSE 0

\* a write may fail only while the model's budget of failures lasts
MayWrite(w) == w = "ok" \/ write_faults < MaxFaults

(***************************************************************************)
(* Operations.                                                             *)
(***************************************************************************)
Init ==
    /\ phase = "boot"
    /\ file \in InitialFiles
    /\ allowed_tags = <<>>
    /\ scanning_enabled = FALSE
    /\ esp = "None"
    /\ buffer = EmptyStr
    /\ serial_out = 0
    /\ last = NoOp
    /\ write_faults = 0
    /\ ports_open = 0
    /\ typed = <<>>
    /\ denied_checks = 0

\* RFIDApp.__init__.  An exception leaving load_tags_from_json leaves
\* __init__ and ends the process: no window, no store.
Construct(readOk, w) ==
    /\ phase = "boot"
    /\ MayWrite(w)
    /\ LET r == LoadTagsFromJson(file, readOk, w)
       IN  /\ allowed_tags' = r.tags
           /\ file' = r.file
           /\ write_faults' = write_faults + Faults(w, r.wrote)
           /\ phase' = IF r.raised THEN "crashed" ELSE "running"
           /\ last' = Done("load_tags_from_json", EmptyStr, r.how,
                           IF r.raised THEN "" ELSE "Ready to Scan", "")
    /\ scanning_enabled' = FALSE
    /\ buffer' = EmptyStr
    /\ esp' = "None"
    /\ UNCHANGED <<serial_out, ports_open, typed, denied_checks>>

\* enable_scanning with the flag set before the port is opened
EnableScanning_FlagFirst(port) ==
    /\ port \in {"none", "fail", "ok"}
    /\ IF port = "ok"
       THEN /\ esp' = "open"
            /\ ports_open' = ports_open + 1
            /\ scanning_enabled' = TRUE
            /\ typed' = <<>>
            /\ last' = Done("enable_scanning", EmptyStr, port, "SCANNING...",
                            "Scanning started")
       ELSE /\ UNCHANGED <<esp, ports_open, typed>>
            /\ scanning_enabled' = (port = "fail")
            /\ last' = IF port = "none"
                       THEN Done("enable_scanning", EmptyStr, port, "", "")
                       ELSE Done("enable_scanning", EmptyStr, port,
                                 "CONNECTION FAILED", "Connection failed")
    /\ UNCHANGED <<buffer>>

\* enable_scanning.  port is what the combo box and serial.Serial give:
\* "none" (no port selected), "fail" (serial.Serial raises), "ok".
EnableScanning(port) ==
    /\ port \in {"none", "fail", "ok"}
    /\ IF port = "ok"
       THEN /\ esp' = "open"
            /\ ports_open' = ports_open + 1
            /\ scanning_enabled' = TRUE
            /\ typed' = <<>>
            /\ last' = Done("enable_scanning", EmptyStr, port, "SCANNING...",
                            "Scanning started")
       ELSE /\ UNCHANGED <<esp, ports_open, scanning_enabled, typed>>
            /\ last' = IF port = "none"
                       THEN Done("enable_scanning", EmptyStr, port, "", "")
                       ELSE Done("enable_scanning", EmptyStr, port,
                                 "CONNECTION FAILED", "Connection failed")
    /\ UNCHANGED <<buffer>>

\* disable_scanning dropping the connection object without closing it
DisableScanning_NoClose ==
    /\ scanning_enabled' = FALSE
    /\ esp' = "None"
    /\ ports_open' = ports_open
    /\ buffer' = EmptyStr
    /\ typed' = <<>>
    /\ last' = Done("disable_scanning", EmptyStr, "none", "READY TO SCAN",
                    "Scanning stopped")

\* disable_scanning leaving the typed digits in the buffer
DisableScanning_KeepBuffer ==
    /\ scanning_enabled' = FALSE
    /\ esp' = "None"
    /\ ports_open' = IF esp = "open" THEN ports_open - 1 ELSE ports_open
    /\ buffer' = buffer
    /\ typed' = <<>>
    /\ last' = Done("disable_scanning", EmptyStr, "none", "READY TO SCAN",
                    "Scanning stopped")

\* disable_scanning
DisableScanning ==
    /\ scanning_enabled' = FALSE
    /\ esp' = "None"
    /\ ports_open' = IF esp = "open" THEN ports_open - 1 ELSE ports_open
    /\ buffer' = EmptyStr
    /\ typed' = <<>>
    /\ last' = Done("disable_scanning", EmptyStr, "none", "READY TO SCAN",
                    "Scanning stopped")

\* toggle_scanning: the Start/Stop button
ToggleScanning(port) ==
    /\ phase = "running"
    /\ IF scanning_enabled THEN DisableScanning ELSE EnableScanning(port)
    /\ UNCHANGED <<phase, file, allowed_tags, serial_out, write_faults,
                   denied_checks>>

\* the event filter taking key presses whether or not scanning is enabled
FilterActive_Always == TRUE

\* eventFilter's test: self.scanning_enabled (and the event is a key press)
FilterActive == scanning_enabled

\* event.text() of a key: a digit key gives its digit, the other key
\* stands for a letter key and gives "a"
KeyText(key) == IF key = "Other" THEN <<"a">> ELSE <<key>>

\* the digit test letting every key that has a text through
IsDigitKey_AnyText(key) == key # "Return"

\* Qt.Key.Key_0 <= key <= Qt.Key.Key_9
IsDigitKey(key) == key \in DigitKeys

\* the key's text put in front of the buffer
AddText_InFront(buf, text) == text \o buf

\* self.buffer += event.text()
AddText(buf, text) == buf \o text

\* eventFilter on a key press; limit bounds the digits typed before Enter,
\* cap is where the count of refused checks stops
KeyPress(key, limit, cap) ==
    /\ phase = "running"
    /\ key \in Keys
    /\ IF ~FilterActive
       THEN /\ last' = Done("key_ignored", EmptyStr, "none", "", "")
            /\ UNCHANGED <<buffer, serial_out, typed, denied_checks>>
       ELSE IF IsDigitKey(key)
       THEN /\ Len(buffer) < limit
            /\ buffer' = AddText(buffer, KeyText(key))
            /\ typed' = Append(typed, key)
            /\ last' = Done("key", EmptyStr, "none", "", "")
            /\ UNCHANGED <<serial_out, denied_checks>>
       ELSE IF key = "Return"
       THEN LET r == CheckTag(allowed_tags, esp, buffer)
            IN  /\ serial_out + r.writes <= MaxWrites
                /\ buffer' = EmptyStr
                /\ typed' = <<>>
                /\ serial_out' = serial_out + r.writes
                /\ denied_checks' = IF ~r.success /\ denied_checks < cap
                                    THEN denied_checks + 1
                                    ELSE denied_checks
                /\ last' = Done("check_tag", buffer, BoolStr(r.success),
                                r.label, r.note)
       ELSE /\ last' = Done("key", EmptyStr, "none", "", "")
            /\ UNCHANGED <<buffer, serial_out, typed, denied_checks>>
    /\ UNCHANGED <<phase, file, allowed_tags, scanning_enabled, esp,
                   write_faults, ports_open>>

\* eventFilter on a key press; refused checks are not counted here
EventFilter(key) == KeyPress(key, MaxBuf, 0)

\* add_new_tag: the Add button of the settings panel
AddNewTag(text, w) ==
    /\ phase = "running"
    /\ text \in NewTagInputs
    /\ MayWrite(w)
    /\ LET tag == Strip(text)
       IN  IF tag = EmptyStr \/ InList(JStr(tag), allowed_tags)
           THEN /\ last' = Done("add_new_tag", tag, "none", "", "")
                /\ UNCHANGED <<allowed_tags, file, write_faults>>
           ELSE LET r == AddTagToJson(allowed_tags, file, tag, w)
                IN  /\ Len(allowed_tags) < MaxTags
                    /\ allowed_tags' = r.tags
                    /\ file' = r.file
                    /\ write_faults' = write_faults + Faults(w, r.wrote)
                    /\ last' = Done("add_tag_to_json", tag, BoolStr(r.ret), "",
                                    IF r.ret THEN "Tag added" ELSE "")
    /\ UNCHANGED <<phase, scanning_enabled, esp, buffer, serial_out,
                   ports_open, typed, denied_checks>>

\* remove_selected_tag, confirmed with Yes (on_yes): item i of tag_list
RemoveSelectedTag(i, w) ==
    /\ phase = "running"
    /\ i \in 1..Len(allowed_tags)
    /\ allowed_tags[i].kind = "str"
    /\ MayWrite(w)
    /\ LET tag == allowed_tags[i].text
           r == RemoveTagFromJson(allowed_tags, file, tag, w)
       IN  /\ allowed_tags' = r.tags
           /\ file' = r.file
           /\ write_faults' = write_faults + Faults(w, r.wrote)
           /\ last' = Done("remove_tag_from_json", tag, BoolStr(r.ret), "",
                           IF r.ret THEN "Tag removed" ELSE "Failed to remove")
    /\ UNCHANGED <<phase, scanning_enabled, esp, buffer, serial_out,
                   ports_open, typed, denied_checks>>

\* closeEvent: the window closes
CloseEvent ==
    /\ phase = "running"
    /\ phase' = "closed"
    /\ esp' = IF esp = "open" THEN "closed" ELSE esp
    /\ ports_open' = IF esp = "open" THEN ports_open - 1 ELSE ports_open
    /\ last' = Done("closeEvent", EmptyStr, "none", "", "")
    /\ UNCHANGED <<file, allowed_tags, scanning_enabled, buffer, serial_out,
                   write_faults, typed, denied_checks>>

Next ==
    \/ \E readOk \in BOOLEAN, w \in WriteOutcomes : Construct(readOk, w)
    \/ \E port \in {"none", "fail", "ok"} : ToggleScanning(port)
    \/ \E key \in Keys : EventFilter(key)
    \/ \E text \in NewTagInputs, w \in WriteOutcomes : AddNewTag(text, w)
    \/ \E i \in 1..MaxTags, w \in WriteOutcomes : RemoveSelectedTag(i, w)
    \/ CloseEvent

Spec == Init /\ [][Next]_vars

(***************************************************************************)
(* The Tag Store operated directly (spec 4.1: load, add, remove).          *)
(***************************************************************************)
\* tags handed to add and remove
StoreTags == { <<>>, <<"1">>, <<"2">>, <<"1","a">> }

\* add_tag_to_json called with tag
StoreAdd(tag, w) ==
    /\ phase = "running"
    /\ tag \in StoreTags
    /\ MayWrite(w)
    /\ LET r == AddTagToJson(allowed_tags, file, tag, w)
       IN  /\ Len(r.tags) <= MaxTags
           /\ allowed_tags' = r.tags
           /\ file' = r.file
           /\ write_faults' = write_faults + Faults(w, r.wrote)
           /\ last' = Done("add_tag_to_json", tag, BoolStr(r.ret), "", "")
    /\ UNCHANGED <<phase, scanning_enabled, esp, buffer, serial_out,
                   ports_open, typed, denied_checks>>

\* remove_tag_from_json called with tag
StoreRemove(tag, w) ==
    /\ phase = "running"
    /\ tag \in StoreTags
    /\ MayWrite(w)
    /\ LET r == RemoveTagFromJson(allowed_tags, file, tag, w)
       IN  /\ allowed_tags' = r.tags
           /\ file' = r.file
           /\ write_faults' = write_faults + Faults(w, r.wrote)
           /\ last' = Done("remove_tag_from_json", tag, BoolStr(r.ret), "", "")
    /\ UNCHANGED <<phase, scanning_enabled, esp, buffer, serial_out,
                   ports_open, typed, denied_checks>>

\* load_tags_from_json called again on the file as it is now (the next
\* start of the application)
StoreLoad(readOk, w) ==
    /\ phase = "running"
    /\ MayWrite(w)
    /\ LET r == LoadTagsFromJson(file, readOk, w)
       IN  /\ allowed_tags' = r.tags
           /\ file' = r.file
           /\ write_faults' = write_faults + Faults(w, r.wrote)
           /\ phase' = IF r.raised THEN "crashed" ELSE "running"
           /\ last' = Done("load_tags_from_json", EmptyStr, r.how, "", "")
    /\ UNCHANGED <<scanning_enabled, esp, buffer, serial_out, ports_open,
                   typed, denied_checks>>

NextStore ==
    \/ \E readOk \in BOOLEAN, w \in WriteOutcomes : Construct(readOk, w)
    \/ \E readOk \in BOOLEAN, w \in WriteOutcomes : StoreLoad(readOk, w)
    \/ \E tag \in StoreTags, w \in WriteOutcomes : StoreAdd(tag, w)
    \/ \E tag \in StoreTags, w \in WriteOutcomes : StoreRemove(tag, w)

SpecStore == Init /\ [][NextStore]_vars

(***************************************************************************)
(* A scanning session: start and stop, key presses, closing the window.    *)
(* The settings panel is left alone, which leaves room for longer lines.   *)
(***************************************************************************)
\* eventFilter on a key press
ScanKey(key) == KeyPress(key, MaxLine, MaxDenied)

NextScan ==
    \/ \E readOk \in BOOLEAN, w \in WriteOutcomes : Construct(readOk, w)
    \/ \E port \in {"none", "fail", "ok"} : ToggleScanning(port)
    \/ \E key \in Keys : ScanKey(key)
    \/ CloseEvent

SpecScan == Init /\ [][NextScan]_vars

(***************************************************************************)
(* Properties.                                                             *)
(***************************************************************************)
Constructed == phase \in {"running", "closed"}

Entries(tags) == { tags[i] : i \in 1..Len(tags) }

Checked == last.op = "check_tag"

Granted == last.ret = "true" /\ last.label = "ACCESS GRANTED"

Denied == last.ret = "false" /\ last.label = "ACCESS DENIED"

\* C1: a check of a non-empty scanned tag grants exactly when the tag equals
\* an entry of allowed_tags, and denies otherwise.
C1_GrantIffStored ==
    (Checked /\ last.tag # EmptyStr) =>
        IF JStr(last.tag) \in Entries(allowed_tags)
        THEN Granted /\ last.note = "Access granted"
        ELSE Denied /\ last.note = "Access denied"

C1_Witness ==
    /\ Checked
    /\ last.tag = <<"2">>
    /\ Granted
    /\ Len(allowed_tags) >= 2

\* C2: a check of the empty string ends in an "empty tag" outcome that is
\* neither the grant outcome nor the ordinary deny outcome, never grants and
\* writes nothing to the serial port.
C2_EmptyOutcomeDistinct ==
    [][ (last'.op = "check_tag" /\ last'.tag = EmptyStr) =>
            /\ last'.label \notin {"ACCESS GRANTED", "ACCESS DENIED"}
            /\ last'.ret = "false"
            /\ serial_out' = serial_out ]_vars

\* What does hold of a check of the empty string: it never grants, logs
\* "Empty tag" and writes nothing, whatever the store holds.
EmptyNeverGrants ==
    [][ (last'.op = "check_tag" /\ last'.tag = EmptyStr) =>
            /\ last'.ret = "false"
            /\ last'.note = "Empty tag"
            /\ serial_out' = serial_out ]_vars

\* C3: "open" is written once by each check that grants while a connection
\* is held, and by nothing else.
C3_OpenOncePerGrant ==
    [][ serial_out' = serial_out +
            (IF last'.op = "check_tag" /\ last'.ret = "true" /\ esp = "open"
             THEN 1 ELSE 0) ]_vars

C3_Witness ==
    /\ Checked
    /\ Granted
    /\ serial_out = 1
    /\ esp = "open"

\* C4: add of a tag already in the store returns false and leaves the store
\* and the file as they were.
C4_AddPresentNoChange ==
    [][ (last'.op = "add_tag_to_json"
         /\ JStr(last'.tag) \in Entries(allowed_tags)) =>
            /\ last'.ret = "false"
            /\ allowed_tags' = allowed_tags
            /\ file' = file ]_vars

C4_Witness ==
    /\ last.op = "add_tag_to_json"
    /\ last.ret = "false"
    /\ JStr(last.tag) \in Entries(allowed_tags)

\* C5: remove of a tag not in the store returns false and leaves the store
\* and the file as they were.
C5_RemoveAbsentNoChange ==
    [][ (last'.op = "remove_tag_from_json"
         /\ JStr(last'.tag) \notin Entries(allowed_tags)) =>
            /\ last'.ret = "false"
            /\ allowed_tags' = allowed_tags
            /\ file' = file ]_vars

C5_Witness ==
    /\ last.op = "remove_tag_from_json"
    /\ last.ret = "false"
    /\ allowed_tags # <<>>
    /\ JStr(last.tag) \notin Entries(allowed_tags)

\* C6 as stated: add of a tag not in the store appends it last, keeps every
\* earlier element in place, persists the new list and returns true.
C6_AddAbsentPersists ==
    [][ (last'.op = "add_tag_to_json"
         /\ JStr(last'.tag) \notin Entries(allowed_tags)) =>
            /\ allowed_tags' = allowed_tags \o <<JStr(last'.tag)>>
            /\ file' = FileArray(allowed_tags')
            /\ last'.ret = "true" ]_vars

\* C6 amended: add of a tag not in the store appends it last, keeps every
\* earlier element in place and returns true; the file holds the new list
\* when the write succeeds, and otherwise is left as it was or cut short.
C6_AddAbsentAppends ==
    [][ (last'.op = "add_tag_to_json"
         /\ JStr(last'.tag) \notin Entries(allowed_tags)) =>
            /\ Len(allowed_tags') = Len(allowed_tags) + 1
            /\ allowed_tags'[Len(allowed_tags')] = JStr(last'.tag)
            /\ \A i \in 1..Len(allowed_tags) : allowed_tags'[i] = allowed_tags[i]
            /\ last'.ret = "true"
            /\ IF write_faults' = write_faults
               THEN file' = FileArray(allowed_tags')
               ELSE file' \in {file, FileUnparseable} ]_vars

C6_Witness ==
    /\ last.op = "add_tag_to_json"
    /\ last.ret = "true"
    /\ Len(allowed_tags) >= 2
    /\ allowed_tags[Len(allowed_tags)] = JStr(last.tag)
    /\ file = FileArray(allowed_tags)

\* tags with the elements at the indices in keep, in their order
RECURSIVE Pick(_, _, _)
Pick(tags, keep, i) ==
    IF i > Len(tags) THEN <<>>
    ELSE (IF i \in keep THEN <<tags[i]>> ELSE <<>>) \o Pick(tags, keep, i+1)

\* new is old with one element taken out and the others left in order
OneRemoved(old, new) ==
    \E k \in 1..Len(old) : new = Pick(old, (1..Len(old)) \ {k}, 1)

\* C7: remove of a tag in the store returns true, leaves the tag no longer
\* a member, keeps the other tags in their order and persists the new list
\* (here: whenever the write succeeds).
C7_RemovePresentGone ==
    [][ (last'.op = "remove_tag_from_json"
         /\ JStr(last'.tag) \in Entries(allowed_tags)) =>
            /\ last'.ret = "true"
            /\ JStr(last'.tag) \notin Entries(allowed_tags')
            /\ OneRemoved(allowed_tags, allowed_tags')
            /\ (write_faults' = write_faults
                    => file' = FileArray(allowed_tags')) ]_vars

\* C8: the entries of allowed_tags are pairwise distinct.
C8_NoDuplicates ==
    Constructed =>
        \A i, j \in 1..Len(allowed_tags) :
            i # j => allowed_tags[i] # allowed_tags[j]

\* C9: every entry of allowed_tags is a non-empty string.
C9_EntriesNonEmptyStrings ==
    Constructed =>
        \A i \in 1..Len(allowed_tags) :
            allowed_tags[i].kind = "str" /\ allowed_tags[i].text # EmptyStr

\* C10: while no file write has failed, the file holds the JSON array equal
\* to allowed_tags, element for element and in the same order.
C10_FileMirrorsStore ==
    (Constructed /\ write_faults = 0) => file = FileArray(allowed_tags)

C10_Witness ==
    /\ last.op = "remove_tag_from_json"
    /\ last.ret = "true"
    /\ write_faults = 0
    /\ Len(allowed_tags) = 4
    /\ file = FileArray(allowed_tags)

\* the default tag set as the specification lists it
ClaimedDefaults ==
    << JStr(<<"0","0","0","1","2","3","4","5","6","7">>),
       JStr(<<"0","0","0","9","8","7","6","5","4","3">>),
       JStr(<<"0","0","0","5","5","5","5","5","5","5">>),
       JStr(<<"1","2","3","4","5">>),
       JStr(<<"6","7","8","9","0">>) >>

Reloaded == Constructed /\ last'.op = "load_tags_from_json"

\* C11 as stated: after adds whose writes all succeeded, a later load
\* returns the in-memory list, element for element and in the same order.
C11_ReloadReturnsStore ==
    [][ (Reloaded /\ write_faults' = 0) => allowed_tags' = allowed_tags ]_vars

\* C11 amended: after adds whose writes all succeeded, a later load that can
\* read the file returns the in-memory list, element for element and in the
\* same order (a load whose read raises IOError returns the default set).
C11_ReloadRoundTrip ==
    [][ (Reloaded /\ write_faults' = 0) =>
            IF last'.ret = "error"
            THEN allowed_tags' = ClaimedDefaults
            ELSE allowed_tags' = allowed_tags /\ file' = file ]_vars

C11_Witness ==
    /\ last.op = "load_tags_from_json"
    /\ last.ret = "loaded"
    /\ write_faults = 0
    /\ allowed_tags = << JStr(<<"2">>), JStr(<<"1","a">>) >>

StartedFrom(kinds) == phase = "boot" /\ phase' # "boot" /\ file.kind \in kinds

\* C12 as stated: load with no file returns the default set, in order, and
\* creates the file holding exactly that list.
C12_MissingCreatesFile ==
    [][ StartedFrom({"missing"}) =>
            /\ allowed_tags' = ClaimedDefaults
            /\ file' = FileArray(ClaimedDefaults) ]_vars

\* C12 amended: load with no file returns the default set, in order; it
\* creates the file holding exactly that list when the write succeeds, and
\* when the write fails the file stays missing or is left incomplete.
C12_MissingGivesDefaults ==
    [][ StartedFrom({"missing"}) =>
            /\ phase' = "running"
            /\ allowed_tags' = ClaimedDefaults
            /\ IF write_faults' = write_faults
               THEN file' = FileArray(ClaimedDefaults)
               ELSE file' \in {FileMissing, FileUnparseable} ]_vars

C12_Witness ==
    /\ last.op = "load_tags_from_json"
    /\ last.ret = "created"
    /\ phase = "running"
    /\ allowed_tags = ClaimedDefaults
    /\ file = FileArray(ClaimedDefaults)

\* C13: load of a file that exists and holds no JSON array (another JSON
\* value, or content that cannot be read or parsed) returns the default set
\* and overwrites the file with it (here: whenever the write succeeds); the
\* old content is never the store.
C13_NonArrayGivesDefaults ==
    [][ (StartedFrom({"nonarray", "unparseable", "undecodable"})
         \/ (StartedFrom({"array"}) /\ last'.ret = "error")) =>
            /\ phase' = "running"
            /\ allowed_tags' = ClaimedDefaults
            /\ (write_faults' = write_faults
                    => file' = FileArray(ClaimedDefaults)) ]_vars

\* a step in which a write of the tags file failed
WriteFailedStep == write_faults' > write_faults

\* C14: a failed file write is not fatal and is not rolled back: the step
\* leaves the application running, an add has appended the tag and returned
\* true, a remove has taken one entry out and returned true, a fallback load
\* has returned the defaults; and a check made while the file differs from
\* allowed_tags grants exactly the tags that are in allowed_tags.
C14_FailedWriteKeepsMemory ==
    [][ /\ WriteFailedStep =>
            /\ phase' = "running"
            /\ last'.op = "add_tag_to_json" =>
                    /\ last'.ret = "true"
                    /\ allowed_tags' = allowed_tags \o <<JStr(last'.tag)>>
            /\ last'.op = "remove_tag_from_json" =>
                    /\ last'.ret = "true"
                    /\ OneRemoved(allowed_tags, allowed_tags')
            /\ last'.op = "load_tags_from_json" =>
                    allowed_tags' = ClaimedDefaults
        /\ (/\ last'.op = "check_tag"
            /\ last'.tag # EmptyStr
            /\ file # FileArray(allowed_tags)) =>
                (last'.ret = "true"
                    <=> JStr(last'.tag) \in Entries(allowed_tags)) ]_vars

\* a tag added while the write failed is granted although the file lacks it
C14_Witness ==
    /\ Checked
    /\ Granted
    /\ write_faults = 1
    /\ file.kind = "array"
    /\ JStr(last.tag) \notin Entries(file.tags)
    /\ JStr(last.tag) \in Entries(allowed_tags)

\* C15: the tags file is never partially written: every step leaves the
\* file either as it was or holding the complete new list.
C15_FileNeverPartial ==
    [][ file' \in {file, FileArray(allowed_tags')} ]_vars

\* C16: after a start attempt whose serial.Serial call failed, scanning is
\* disabled, no connection is held, the failure is shown ("CONNECTION
\* FAILED", "Connection failed"), the application keeps running and a
\* further start attempt can enable scanning.
C16_OpenFailureLeavesDisabled ==
    (last.op = "enable_scanning" /\ last.ret = "fail") =>
        /\ ~scanning_enabled
        /\ esp = "None"
        /\ ports_open = 0
        /\ last.label = "CONNECTION FAILED"
        /\ last.note = "Connection failed"
        /\ phase = "running"
        /\ ENABLED (ToggleScanning("ok") /\ scanning_enabled')

C16_Witness ==
    /\ last.op = "enable_scanning"
    /\ last.ret = "fail"
    /\ ~scanning_enabled
    /\ esp = "None"

\* C17: while the application runs a serial connection is open exactly when
\* scanning_enabled is true, never more than one connection is open, and
\* none is open once the window has closed.
C17_ConnectionIffScanning ==
    /\ ports_open \in {0, 1}
    /\ phase = "running" =>
            /\ (esp = "open") <=> scanning_enabled
            /\ (ports_open = 1) <=> scanning_enabled
    /\ phase # "running" => (ports_open = 0 /\ esp # "open")

\* scanning was stopped after an unlock command went out on the connection
C17_Witness ==
    /\ last.op = "disable_scanning"
    /\ serial_out = 1
    /\ ports_open = 0
    /\ esp = "None"

\* C18: the buffer is empty right after every submit and right after
\* scanning is disabled, and stays empty while scanning is disabled.
C18_BufferClearedOnSubmitAndStop ==
    /\ last.op \in {"check_tag", "disable_scanning"} => buffer = EmptyStr
    /\ (phase = "running" /\ ~scanning_enabled) => buffer = EmptyStr

C18_Witness ==
    /\ Checked
    /\ last.tag = <<"2", "1">>
    /\ buffer = EmptyStr
    /\ scanning_enabled

\* C19: while scanning is disabled a key press is ignored: it appends no
\* digit, checks no tag, writes nothing to the port, and leaves the buffer,
\* the store, the file and the serial state as they were.
C19_KeysIgnoredWhileDisabled ==
    [][ (~scanning_enabled
         /\ last'.op \in {"key_ignored", "key", "check_tag"}) =>
            /\ last'.op = "key_ignored"
            /\ UNCHANGED <<buffer, allowed_tags, file, serial_out, esp,
                           ports_open, scanning_enabled>> ]_vars

C19_Witness ==
    /\ last.op = "key_ignored"
    /\ ~scanning_enabled
    /\ buffer = EmptyStr
    /\ serial_out = 0
    /\ allowed_tags # <<>>

\* C20: the tag handed to check_tag on Enter is the digits pressed since the
\* last submit or since scanning started, in the order pressed; a key that
\* is neither a digit nor Enter leaves the buffer as it was.
C20_LineBuffering ==
    [][ /\ last'.op = "check_tag" => last'.tag = typed
        /\ (last'.op = "key" /\ typed' = typed) => buffer' = buffer ]_vars

C20_Witness ==
    /\ Checked
    /\ last.tag = <<"1", "2">>
    /\ Denied
    /\ typed = <<>>

\* C21: a check changes neither allowed_tags nor the file nor the scanning
\* flag, and its outcome is a function of the tag and allowed_tags alone:
\* granted exactly when the tag is non-empty and in allowed_tags, however
\* many checks were refused before it.
C21_CheckHasNoMemory ==
    [][ last'.op = "check_tag" =>
            /\ UNCHANGED <<allowed_tags, file, scanning_enabled>>
            /\ last'.ret = BoolStr(/\ last'.tag # EmptyStr
                                   /\ JStr(last'.tag) \in Entries(allowed_tags))
      ]_vars

\* a grant that follows MaxDenied refused checks
C21_Witness ==
    /\ Checked
    /\ Granted
    /\ denied_checks = MaxDenied

\* C22: enrolment and revocation take effect at once: a check of tag t made
\* right after a successful add of t grants, and a check of t made right
\* after a successful remove of t does not grant.
C22_ChangeTakesEffectAtOnce ==
    [][ (/\ last.op \in {"add_tag_to_json", "remove_tag_from_json"}
         /\ last.ret = "true"
         /\ last'.op = "check_tag"
         /\ last'.tag = last.tag
         /\ last'.tag # EmptyStr) =>
            (last'.ret = "true" <=> last.op = "add_tag_to_json") ]_vars

Digits == {"0", "1", "2", "3", "4", "5", "6", "7", "8", "9"}

AllDigits(s) == \A i \in 1..Len(s) : s[i] \in Digits

\* C23: the buffer holds digits only, so every tag granted from the keyboard
\* consists of digits and an entry of allowed_tags with another character in
\* it is never the tag of a grant.
C23_GrantedTagsAreDigits ==
    /\ AllDigits(buffer)
    /\ (Checked /\ Granted) =>
            /\ AllDigits(last.tag)
            /\ \A i \in 1..Len(allowed_tags) :
                    (allowed_tags[i].kind = "str"
                     /\ ~AllDigits(allowed_tags[i].text))
                        => allowed_tags[i].text # last.tag

\* a grant while the store holds the entry "1a"
C23_Witness ==
    /\ Checked
    /\ Granted
    /\ serial_out = 1
    /\ JStr(<<"1", "a">>) \in Entries(allowed_tags)

====
